---- MODULE Spec2Model ----
(***************************************************************************)
(* Wardriving (src/modules/wifi/wardriving.cpp, wardriving.h): the         *)
(* acquisition loop, the MAC deduplication engine (in-memory cache plus    *)
(* append-only binary index file) and the observation log writer.          *)
(*                                                                         *)
(* Strings are sequences of one-character strings, so that the code's      *)
(* character-level validation, hex parsing and std::set<String> ordering   *)
(* are computed as the code computes them.  Every storage call whose       *)
(* result the environment decides (getFsStorage, mkdir, open, write,       *)
(* print, println) takes its outcome as a parameter.                       *)
(***************************************************************************)
EXTENDS Integers, Sequences, FiniteSets, TLC

(***************************************************************************)
(* Bounds of the model (not program constants).                            *)
(***************************************************************************)
\* wardriving.h sets CACHE_SIZE = 1000 and CACHE_CLEAN_THRESHOLD = 800; the
\* model divides both by Scale so that an eviction is reached with a handful
\* of addresses (Scale = 1 is the program as built).
Scale == 300
\* Radio scans a behaviour may perform (dedup profile / loop profile).
MaxScans == 2
LoopScans == 1
\* Largest network_amount a radio scan reports.
MaxNets == 2
\* Storage calls that may fail in one behaviour.
MaxFaults == 1
\* Sessions started after the first one (a new Wardriving object).
MaxRestarts == 1
\* Polls of loop() that find the serial buffer empty (dedup profile); the loop
\* profile allows CountLimit + 1 + LoopEmptySlack of them.
MaxEmpty == 0
LoopEmptySlack == 1
\* Advances of the millisecond clock seen by loop() (dedup / loop profile).
MaxTicks == 0
LoopTicks == 1
\* begin_gps' displayed seconds counter saturates here.
MaxWaitShown == 1
\* Times the storage content may be lost in one behaviour (loop profile).
MaxLosses == 1

(***************************************************************************)
(* Program constants.                                                      *)
(***************************************************************************)
MAX_WAIT == 5000
CURRENT_YEAR == 2024
FS_CHECK_INTERVAL == 300000
BLOCK_SIZE == 6
CACHE_SIZE == 1000 \div Scale
CACHE_CLEAN_THRESHOLD == 800 \div Scale
\* loop(): "if (count > 5)".
CountLimit == 5

(***************************************************************************)
(* MAC codec.                                                              *)
(***************************************************************************)
HexChars == <<"0","1","2","3","4","5","6","7","8","9","A","B","C","D","E","F">>

\* <ctype.h> isxdigit
isxdigit(c) ==
    c \in {"0","1","2","3","4","5","6","7","8","9",
           "a","b","c","d","e","f","A","B","C","D","E","F"}

\* value of one hex digit as strtol(.., 16) reads it (either case)
HexVal(c) ==
    CASE c = "0" -> 0 [] c = "1" -> 1 [] c = "2" -> 2 [] c = "3" -> 3
      [] c = "4" -> 4 [] c = "5" -> 5 [] c = "6" -> 6 [] c = "7" -> 7
      [] c = "8" -> 8 [] c = "9" -> 9
      [] c \in {"a","A"} -> 10 [] c \in {"b","B"} -> 11
      [] c \in {"c","C"} -> 12 [] c \in {"d","D"} -> 13
      [] c \in {"e","E"} -> 14 [] c \in {"f","F"} -> 15
      [] OTHER -> 0

\* ASCII code, the order String::operator< (strcmp) compares by
CharCode(c) ==
    CASE c = "-" -> 45 [] c = ":" -> 58
      [] c \in {"0","1","2","3","4","5","6","7","8","9"} -> 48 + HexVal(c)
      [] c \in {"A","B","C","D","E","F"} -> 55 + HexVal(c)
      [] c \in {"a","b","c","d","e","f"} -> 87 + HexVal(c)
      [] OTHER -> 0

isValidMacString(mac) ==
    IF Len(mac) # 17 THEN FALSE
    ELSE \A i \in 0..16 :
            IF i % 3 = 2 THEN mac[i + 1] = ":" ELSE isxdigit(mac[i + 1])

\* [ok |-> the bool returned, bytes |-> the 6 bytes written to the out buffer]
macStringToBytes(mac) ==
    IF ~isValidMacString(mac) THEN [ok |-> FALSE, bytes |-> <<>>]
    ELSE [ok |-> TRUE,
          bytes |-> [b \in 1..BLOCK_SIZE |->
                        16 * HexVal(mac[3 * (b - 1) + 1]) + HexVal(mac[3 * (b - 1) + 2])]]

\* "%02X:%02X:%02X:%02X:%02X:%02X"
bytesToMacString(bytes) ==
    [p \in 1..17 |->
        IF (p - 1) % 3 = 2 THEN ":"
        ELSE IF (p - 1) % 3 = 0 THEN HexChars[(bytes[((p - 1) \div 3) + 1] \div 16) + 1]
        ELSE HexChars[(bytes[((p - 1) \div 3) + 1] % 16) + 1]]

(***************************************************************************)
(* What a radio scan can report.  WiFi.BSSIDstr(i) renders the 6 BSSID     *)
(* bytes with the same "%02X:..." pattern, and yields the empty string for *)
(* an entry the driver cannot resolve.                                     *)
(***************************************************************************)
BSSIDs == { <<170, 187, 204, 221, 238, 1>>,
            <<170, 187, 204, 221, 238, 2>>,
            <<170, 187, 204, 221, 238, 3>> }
ValidMacs == { bytesToMacString(b) : b \in BSSIDs }
EmptyStr == << >>
Observations ==
    { [mac |-> m, ssid |-> "Net1"] : m \in ValidMacs \cup {EmptyStr} }
    \cup { [mac |-> bytesToMacString(<<170, 187, 204, 221, 238, 2>>), ssid |-> ""] }

(***************************************************************************)
(* State.                                                                  *)
(***************************************************************************)
VARIABLES
    pc,                   \* position of the session in setup()/loop()
    \* fields of the Wardriving object and the global returnToMenu
    gpsConnected, returnToMenu, indexFileInitialized, initial_position_set,
    date_time_updated, filename, wifiNetworkCount, macAddressCache,
    cur_lat, cur_lng, distance,
    \* locals: count (begin_gps, loop), lastFsCheck (loop),
    \* network_amount, i, macAddress, ssid (append_to_file)
    count, lastFsCheck, network_amount, i, macAddress, ssid,
    \* peripherals: serial buffer non-empty, ESC key down, gps.date.year(),
    \* millis(), the "GPS not Found!" error display
    gpsAvailable, escPressed, gpsYear, clock, gpsNotFound,
    \* storage: /BruceWardriving, mac_index.bin, the log files
    dirExists, indexFile, logFiles,
    \* history: addresses handed to record, addresses whose record succeeded,
    \* addresses of the data rows written in this session, consecutive polls
    \* of loop() that found no data
    recorded, recordedOk, sessionRows, emptyRun,
    \* history: what the poll of the current iteration of loop() did, the
    \* fixes handed to set_position in this session, how the last turn of the
    \* for loop of append_to_file ended
    trail, fixLog, recordResult,
    \* what the environment may still do in this behaviour
    budget

posVars == <<cur_lat, cur_lng, distance>>
progVars == <<gpsConnected, returnToMenu, indexFileInitialized, initial_position_set,
              date_time_updated, filename, wifiNetworkCount, macAddressCache, posVars>>
localVars == <<count, lastFsCheck, network_amount, i, macAddress, ssid>>
periVars == <<gpsAvailable, escPressed, gpsYear, clock, gpsNotFound>>
fsVars == <<dirExists, indexFile, logFiles>>
histVars == <<recorded, recordedOk, sessionRows, emptyRun, trail, fixLog, recordResult>>
vars == <<pc, progVars, localVars, periVars, fsVars, histVars, budget>>

Min(a, b) == IF a < b THEN a ELSE b

(***************************************************************************)
(* Output file name and lines.                                             *)
(***************************************************************************)
\* gps.date.year() is 2000 + two digits; 2000 is what it reads before any date
NoDateYear == 2000
Years == {NoDateYear, CURRENT_YEAR, CURRENT_YEAR + 4, CURRENT_YEAR + 5}

\* sprintf("%02d%02d%02d_%02d%02d%02d") + "_wardriving.csv": the year prints
\* all its digits; month, day and time are held fixed in the model
create_filename(year) ==
    << HexChars[(year \div 1000) + 1], HexChars[((year \div 100) % 10) + 1],
       HexChars[((year \div 10) % 10) + 1], HexChars[(year % 10) + 1],
       "0101_000000", "_wardriving.csv" >>

LogNames == { create_filename(y) : y \in Years }
NoFile == [exists |-> FALSE, data |-> << >>]
BannerLine == <<"WigleWifi-1.6">>
ColumnLine == <<"MAC,SSID,AuthMode,FirstSeen">>
DataRow(mac) == <<"row", mac>>
\* what a print that stops early leaves of the row
PartialRow(mac) == <<"part", mac>>

(***************************************************************************)
(* Deduplication engine: cache.                                            *)
(***************************************************************************)
\* String::operator< as std::set<String> orders its elements
RECURSIVE StrLess(_, _)
StrLess(s, t) ==
    IF t = << >> THEN FALSE
    ELSE IF s = << >> THEN TRUE
    ELSE IF CharCode(Head(s)) # CharCode(Head(t)) THEN CharCode(Head(s)) < CharCode(Head(t))
    ELSE StrLess(Tail(s), Tail(t))

\* *macAddressCache.begin()
SetBegin(cache) == CHOOSE x \in cache : \A y \in cache : x = y \/ StrLess(x, y)

isMacInCache(cache, mac) == mac \in cache

RECURSIVE EraseToTarget(_, _)
EraseToTarget(cache, targetSize) ==
    IF Cardinality(cache) > targetSize
    THEN EraseToTarget(cache \ {SetBegin(cache)}, targetSize)
    ELSE cache

\* variant: the clean-up starts at the capacity instead of the threshold
maintainCacheAtCapacity(cache) ==
    IF Cardinality(cache) > CACHE_SIZE
    THEN EraseToTarget(cache, CACHE_SIZE \div 2)
    ELSE cache

\* maintainCache()
maintainCache(cache) ==
    IF Cardinality(cache) > CACHE_CLEAN_THRESHOLD
    THEN EraseToTarget(cache, CACHE_SIZE \div 2)
    ELSE cache

\* variant: the insertion is undone
addMacToCacheRolledBack(cache, mac) == cache

\* addMacToCache()
addMacToCache(cache, mac) == maintainCache(cache \cup {mac})

(***************************************************************************)
(* Storage.  st = [dir, index, init] is /BruceWardriving, mac_index.bin    *)
(* and indexFileInitialized; an environment record e gives the outcome of  *)
(* each storage call, TRUE for a call that succeeds or is not made.        *)
(***************************************************************************)
\* [ok |-> the bool returned, st |-> the state left]
checkFileSystem(st, e) ==
    IF ~e.fs THEN [ok |-> FALSE, st |-> st]
    ELSE IF ~st.dir
         THEN IF ~e.mkdir THEN [ok |-> FALSE, st |-> st]
              ELSE [ok |-> TRUE, st |-> [st EXCEPT !.dir = TRUE]]
         ELSE [ok |-> TRUE, st |-> st]

initializeIndex(st, e) ==
    IF st.init THEN [ok |-> TRUE, st |-> st]
    ELSE LET c == checkFileSystem(st, [fs |-> e.cfs, mkdir |-> e.mkdir]) IN
         IF ~c.ok THEN [ok |-> FALSE, st |-> c.st]
         ELSE IF ~e.fs THEN [ok |-> FALSE, st |-> c.st]
         ELSE IF ~c.st.index.exists
              THEN IF ~e.open THEN [ok |-> FALSE, st |-> c.st]
                   ELSE [ok |-> TRUE,
                         st |-> [c.st EXCEPT !.index = [exists |-> TRUE, data |-> << >>],
                                             !.init = TRUE]]
              ELSE [ok |-> TRUE, st |-> [c.st EXCEPT !.init = TRUE]]

\* the n-th 6-byte block the read loop delivers (n from 0)
Block(data, n) == SubSeq(data, BLOCK_SIZE * n + 1, BLOCK_SIZE * n + BLOCK_SIZE)

\* the read loop of isMacInIndex: whole blocks only, first match wins
IndexScan(data, searchBytes) ==
    \E n \in 0..((Len(data) \div BLOCK_SIZE) - 1) : Block(data, n) = searchBytes

\* [found |-> the bool returned, st |-> the state left]
isMacInIndex(st, mac, e) ==
    LET ini == IF st.init THEN [ok |-> TRUE, st |-> st] ELSE initializeIndex(st, e.init) IN
    IF ~ini.ok THEN [found |-> FALSE, st |-> ini.st]
    ELSE IF ~e.fs THEN [found |-> FALSE, st |-> ini.st]
    ELSE IF ~(e.open /\ ini.st.index.exists) THEN [found |-> FALSE, st |-> ini.st]
    ELSE LET b == macStringToBytes(mac) IN
         IF ~b.ok THEN [found |-> FALSE, st |-> ini.st]
         ELSE [found |-> IndexScan(ini.st.index.data, b.bytes), st |-> ini.st]

\* e.written is what indexFile.write(bytes, BLOCK_SIZE) returns
\* [ok |-> the bool returned, st |-> the state left]
addMacToIndex(st, mac, e) ==
    LET ini == IF st.init THEN [ok |-> TRUE, st |-> st] ELSE initializeIndex(st, e.init) IN
    IF ~ini.ok THEN [ok |-> FALSE, st |-> ini.st]
    ELSE IF ~e.fs THEN [ok |-> FALSE, st |-> ini.st]
    ELSE IF ~e.open THEN [ok |-> FALSE, st |-> ini.st]
    ELSE LET opened == [ini.st EXCEPT !.index.exists = TRUE]
             b == macStringToBytes(mac) IN
         IF ~b.ok THEN [ok |-> FALSE, st |-> opened]
         ELSE [ok |-> (e.written = BLOCK_SIZE),
               st |-> [opened EXCEPT !.index.data = @ \o SubSeq(b.bytes, 1, e.written)]]

(***************************************************************************)
(* Outcomes of the storage calls the environment may choose: a function    *)
(* returns at its first failing call, so at most one call of an invocation *)
(* fails, and only while the behaviour's fault budget b lasts.             *)
(***************************************************************************)
Outcomes(b) == IF b > 0 THEN {TRUE, FALSE} ELSE {TRUE}
Cost(ok) == IF ok THEN 0 ELSE 1

CheckFsOk == [fs |-> TRUE, mkdir |-> TRUE]
CheckFsEnvs(st, b) ==
    {CheckFsOk}
    \cup (IF b > 0 THEN {[CheckFsOk EXCEPT !.fs = FALSE]} ELSE {})
    \cup (IF b > 0 /\ ~st.dir THEN {[CheckFsOk EXCEPT !.mkdir = FALSE]} ELSE {})

InitOk == [cfs |-> TRUE, mkdir |-> TRUE, fs |-> TRUE, open |-> TRUE]
InitEnvs(st, b) ==
    {InitOk}
    \cup (IF b > 0 /\ ~st.init
          THEN {[InitOk EXCEPT !.cfs = FALSE], [InitOk EXCEPT !.fs = FALSE]}
               \cup (IF ~st.dir THEN {[InitOk EXCEPT !.mkdir = FALSE]} ELSE {})
               \cup (IF ~st.index.exists THEN {[InitOk EXCEPT !.open = FALSE]} ELSE {})
          ELSE {})

ReadOk == [init |-> InitOk, fs |-> TRUE, open |-> TRUE]
ReadEnvs(st, b) ==
    { [ReadOk EXCEPT !.init = ie] : ie \in InitEnvs(st, b) }
    \cup (IF b > 0 THEN {[ReadOk EXCEPT !.fs = FALSE], [ReadOk EXCEPT !.open = FALSE]}
          ELSE {})

WriteOk == [init |-> InitOk, fs |-> TRUE, open |-> TRUE, written |-> BLOCK_SIZE]
WriteEnvs(st, b) ==
    { [WriteOk EXCEPT !.init = ie] : ie \in InitEnvs(st, b) }
    \cup (IF b > 0
          THEN {[WriteOk EXCEPT !.fs = FALSE], [WriteOk EXCEPT !.open = FALSE]}
               \cup { [WriteOk EXCEPT !.written = n] : n \in 0..(BLOCK_SIZE - 1) }
          ELSE {})

\* calls of append_to_file up to the header: checkFileSystem, getFsStorage,
\* open of the output file, the two println of a new file
OpenOk == [cfs |-> TRUE, mkdir |-> TRUE, fs |-> TRUE, open |-> TRUE,
           banner |-> TRUE, columns |-> TRUE]
OpenEnvs(st, isNew, b) ==
    {OpenOk}
    \cup (IF b > 0
          THEN {[OpenOk EXCEPT !.cfs = FALSE], [OpenOk EXCEPT !.fs = FALSE],
                [OpenOk EXCEPT !.open = FALSE]}
               \cup (IF ~st.dir THEN {[OpenOk EXCEPT !.mkdir = FALSE]} ELSE {})
               \cup (IF isNew THEN {[OpenOk EXCEPT !.banner = FALSE],
                                    [OpenOk EXCEPT !.columns = FALSE]} ELSE {})
          ELSE {})
    \cup (IF b > 1 /\ isNew THEN {[OpenOk EXCEPT !.banner = FALSE, !.columns = FALSE]}
          ELSE {})

\* what file.print(buffer) may return: the bytes it wrote, all of the row, none
\* of it, or a part of it (RowLen stands for strlen(buffer))
RowLen == 2
PrintOutcomes(b) == IF b > 0 THEN 0..RowLen ELSE {RowLen}

EnvCost(e, ok) ==
    IF e = ok THEN 0
    ELSE IF "banner" \in DOMAIN e THEN Cost(e.cfs /\ e.mkdir /\ e.fs /\ e.open)
                                       + Cost(e.banner) + Cost(e.columns)
    ELSE 1

(***************************************************************************)
(* Position tracker.  t = [set, lat, lng, distance] is initial_position_set,*)
(* cur_lat, cur_lng and distance.                                          *)
(***************************************************************************)
\* readings of gps.location.lat() and gps.location.lng(), on a grid
Fixes == { <<0, 0>>, <<1, 2>> }
HomeFix == { <<0, 0>> }

Abs(x) == IF x < 0 THEN -x ELSE x

\* gps.distanceBetween (TinyGPS++): the distance function the tracker is given,
\* here the grid distance
distanceBetween(lat1, lng1, lat2, lng2) == Abs(lat1 - lat2) + Abs(lng1 - lng2)

\* variant: the distance is added on the first fix as well
set_positionAlwaysAdds(t, lat, lng) ==
    [set |-> TRUE, lat |-> lat, lng |-> lng,
     distance |-> t.distance + distanceBetween(t.lat, t.lng, lat, lng)]

\* set_position()
set_position(t, lat, lng) ==
    [set |-> TRUE, lat |-> lat, lng |-> lng,
     distance |-> IF t.set
                  THEN t.distance + distanceBetween(t.lat, t.lng, lat, lng)
                  ELSE t.distance]

(***************************************************************************)
(* The session.                                                            *)
(***************************************************************************)
Tracker == [set |-> initial_position_set, lat |-> cur_lat, lng |-> cur_lng,
            distance |-> distance]

\* variant: the key is not looked at
cancelRequestedNoKey(esc, menu) == menu

\* variant: returnToMenu is not looked at
cancelRequestedNoMenu(esc, menu) == esc

\* loop(): "if (checkEscPress() || returnToMenu) return end();"
cancelRequested(esc, menu) == esc \/ menu

St == [dir |-> dirExists, index |-> indexFile, init |-> indexFileInitialized]

\* end(): the files it opens for reading are closed unread
end ==
    /\ indexFileInitialized' = FALSE
    /\ returnToMenu' = TRUE
    /\ gpsConnected' = FALSE

\* begin_gps(): one turn of "while (GPSserial.available() <= 0)"
begin_gps ==
    /\ pc = "begin_gps"
    /\ IF gpsAvailable
       THEN /\ gpsConnected' = TRUE
            /\ pc' = "init_index"
            /\ UNCHANGED <<returnToMenu, indexFileInitialized, count>>
       ELSE IF escPressed
       THEN /\ end
            /\ pc' = "done"
            /\ UNCHANGED count
       ELSE /\ count' = Min(count + 1, MaxWaitShown)
            /\ pc' = pc
            /\ UNCHANGED <<gpsConnected, returnToMenu, indexFileInitialized>>
    /\ UNCHANGED <<initial_position_set, date_time_updated, filename, wifiNetworkCount,
                   macAddressCache, posVars, lastFsCheck, network_amount, i, macAddress,
                   ssid, periVars, fsVars, histVars, budget>>

\* setup() after begin_gps succeeded: initializeIndex, then the prologue of loop()
setup ==
    /\ pc = "init_index"
    /\ \E e \in InitEnvs(St, budget.faults) :
          LET r == initializeIndex(St, e) IN
          /\ dirExists' = r.st.dir
          /\ indexFile' = r.st.index
          /\ budget' = [budget EXCEPT !.faults = @ - EnvCost(e, InitOk)]
          /\ IF r.ok
             THEN /\ indexFileInitialized' = r.st.init
                  /\ returnToMenu' = FALSE
                  /\ count' = 0
                  /\ lastFsCheck' = 0
                  /\ pc' = "loop"
                  /\ UNCHANGED gpsConnected
             ELSE /\ end
                  /\ pc' = "done"
                  /\ UNCHANGED <<count, lastFsCheck>>
    /\ UNCHANGED <<initial_position_set, date_time_updated, filename, wifiNetworkCount,
                   macAddressCache, posVars, network_amount, i, macAddress, ssid,
                   periVars, logFiles, histVars>>

\* what millis() may read next (an unsigned long; the clock of the model stays
\* far below its wrap-around)
ClockReads == {clock} \cup (IF budget.ticks > 0
                            THEN {clock + MAX_WAIT, clock + FS_CHECK_INTERVAL}
                            ELSE {})

\* loop(): the cancellation check and the periodic file system check
loop_top ==
    /\ pc = "loop"
    /\ IF cancelRequested(escPressed, returnToMenu)
       THEN /\ end
            /\ pc' = "done"
            /\ UNCHANGED <<lastFsCheck, clock, dirExists, indexFile, budget>>
       ELSE \E currentTime \in ClockReads :
            /\ clock' = currentTime
            /\ pc' = "poll"
            /\ UNCHANGED <<returnToMenu, gpsConnected>>
            /\ IF currentTime - lastFsCheck >= FS_CHECK_INTERVAL
               THEN \E e \in CheckFsEnvs(St, budget.faults) :
                       LET c == checkFileSystem(St, e)
                           r == IF c.ok THEN initializeIndex(c.st, InitOk)
                                ELSE [ok |-> FALSE, st |-> c.st]
                       IN /\ dirExists' = r.st.dir
                          /\ indexFile' = r.st.index
                          /\ indexFileInitialized' = r.st.init
                          /\ lastFsCheck' = currentTime
                          /\ budget' = [budget EXCEPT
                                          !.faults = @ - EnvCost(e, CheckFsOk),
                                          !.ticks = @ - Cost(currentTime = clock)]
               ELSE /\ budget' = [budget EXCEPT !.ticks = @ - Cost(currentTime = clock)]
                    /\ UNCHANGED <<lastFsCheck, dirExists, indexFile, indexFileInitialized>>
    /\ UNCHANGED <<initial_position_set, date_time_updated, filename, wifiNetworkCount,
                   macAddressCache, posVars, count, network_amount, i, macAddress, ssid,
                   gpsAvailable, escPressed, gpsYear, gpsNotFound, logFiles, histVars>>

\* what gps.date.year() may read after gps.encode(): a receiver that has
\* delivered a date keeps delivering that date
DateReads == IF gpsYear = NoDateYear THEN budget.years ELSE {gpsYear}

\* variant: the comparison is ">=" instead of ">"
gpsLostAtLimit(c) == c >= CountLimit

\* loop(): "if (count > 5)"
gpsLost(c) == c > CountLimit

\* variant: the scan does not wait for an updated location
locationFreshAlways(updated) == TRUE

\* loop(): "if (gps.location.isUpdated())"
locationFresh(updated) == updated

\* loop(): "if (GPSserial.available() > 0) ... else ..."; set_position,
\* dump_gps_data and WiFi.scanNetworks() of scan_networks() included
loop_poll ==
    /\ pc = "poll"
    /\ IF gpsAvailable
       THEN \E year \in DateReads, locationUpdated \in BOOLEAN,
               dateTimeUpdated \in BOOLEAN :
            /\ count' = 0
            /\ emptyRun' = 0
            /\ gpsAvailable' = FALSE
            /\ gpsYear' = year
            /\ IF locationFresh(locationUpdated)
               THEN /\ budget.scans > 0
                    /\ budget' = [budget EXCEPT !.scans = @ - 1]
                    /\ \E fix \in budget.fixes :
                          LET t == set_position(Tracker, fix[1], fix[2]) IN
                          /\ initial_position_set' = t.set
                          /\ cur_lat' = t.lat
                          /\ cur_lng' = t.lng
                          /\ distance' = t.distance
                          /\ fixLog' = Append(fixLog, fix)
                    /\ \E found \in 0..MaxNets :
                          /\ network_amount' = found
                          /\ pc' = IF found = 0 THEN "wait" ELSE "append_open"
                    /\ trail' = <<IF locationUpdated THEN "updated" ELSE "stale",
                                  "set_position", "scan">>
                    /\ UNCHANGED <<date_time_updated, filename>>
               ELSE /\ date_time_updated' = (date_time_updated \/ dateTimeUpdated)
                    /\ filename' = IF filename = EmptyStr /\ year >= CURRENT_YEAR
                                      /\ year < CURRENT_YEAR + 5
                                   THEN create_filename(year) ELSE filename
                    /\ pc' = "wait"
                    /\ trail' = <<IF locationUpdated THEN "updated" ELSE "stale">>
                    /\ UNCHANGED <<initial_position_set, posVars, fixLog, network_amount,
                                   budget>>
            /\ UNCHANGED <<gpsConnected, returnToMenu, indexFileInitialized, gpsNotFound>>
       ELSE /\ budget.empties > 0
            /\ budget' = [budget EXCEPT !.empties = @ - 1]
            /\ emptyRun' = emptyRun + 1
            /\ IF gpsLost(count)
               THEN /\ gpsNotFound' = TRUE
                    /\ end
                    /\ pc' = "done"
                    /\ UNCHANGED count
               ELSE /\ count' = count + 1
                    /\ pc' = "wait"
                    /\ UNCHANGED <<gpsConnected, returnToMenu, indexFileInitialized,
                                   gpsNotFound>>
            /\ trail' = <<"empty">>
            /\ UNCHANGED <<initial_position_set, date_time_updated, filename, posVars,
                           fixLog, network_amount, gpsAvailable, gpsYear>>
    /\ UNCHANGED <<wifiNetworkCount, macAddressCache, lastFsCheck, i, macAddress, ssid,
                   escPressed, clock, fsVars, recorded, recordedOk, sessionRows,
                   recordResult>>

\* append_to_file() up to the header lines
append_open ==
    /\ pc = "append_open"
    /\ LET name == IF filename = EmptyStr THEN create_filename(gpsYear) ELSE filename
           is_new_file == ~logFiles[name].exists
       IN \E e \in OpenEnvs(St, is_new_file, budget.faults) :
          LET c == checkFileSystem(St, [fs |-> e.cfs, mkdir |-> e.mkdir]) IN
          /\ dirExists' = c.st.dir
          /\ budget' = [budget EXCEPT !.faults = @ - EnvCost(e, OpenOk)]
          /\ IF ~c.ok \/ ~e.fs
             THEN /\ returnToMenu' = TRUE
                  /\ pc' = "wait"
                  /\ UNCHANGED <<filename, logFiles, i>>
             ELSE /\ filename' = name
                  /\ IF ~e.open
                     THEN /\ returnToMenu' = TRUE
                          /\ pc' = "wait"
                          /\ UNCHANGED <<logFiles, i>>
                     ELSE /\ logFiles' =
                               [logFiles EXCEPT ![name] =
                                  IF is_new_file
                                  THEN [exists |-> TRUE,
                                        data |-> (IF e.banner THEN <<BannerLine>> ELSE << >>)
                                                 \o (IF e.columns THEN <<ColumnLine>>
                                                     ELSE << >>)]
                                  ELSE @]
                          /\ i' = 0
                          /\ pc' = "append"
                          /\ UNCHANGED returnToMenu
    /\ UNCHANGED <<gpsConnected, indexFileInitialized, initial_position_set,
                   date_time_updated, wifiNetworkCount, macAddressCache, posVars, count,
                   lastFsCheck, network_amount, macAddress, ssid, periVars, indexFile,
                   histVars>>

\* variant: the empty-name test is missing
skipObservationMacOnly(mac, name) == ~isValidMacString(mac)

\* append_to_file(): the two "continue" tests on an observation
skipObservation(mac, name) == ~isValidMacString(mac) \/ name = ""

\* append_to_file(): one turn of "for (int i = 0; i < network_amount; i++)"
append_row ==
    /\ pc = "append"
    /\ i < network_amount
    /\ \E o \in Observations :
       /\ macAddress' = o.mac
       /\ ssid' = o.ssid
       /\ i' = i + 1
       /\ IF skipObservation(o.mac, o.ssid)
          THEN /\ recordResult' = "skipped"
               /\ UNCHANGED <<macAddressCache, fsVars, indexFileInitialized,
                              wifiNetworkCount, recorded, recordedOk, sessionRows, budget>>
          ELSE IF isMacInCache(macAddressCache, o.mac)
          THEN /\ recordResult' = "known"
               /\ UNCHANGED <<macAddressCache, fsVars, indexFileInitialized,
                              wifiNetworkCount, recorded, recordedOk, sessionRows, budget>>
          ELSE \E re \in ReadEnvs(St, budget.faults) :
               LET rd == isMacInIndex(St, o.mac, re)
                   left == budget.faults - EnvCost(re, ReadOk)
               IN IF rd.found
                  THEN /\ dirExists' = rd.st.dir
                       /\ indexFile' = rd.st.index
                       /\ indexFileInitialized' = rd.st.init
                       /\ budget' = [budget EXCEPT !.faults = left]
                       /\ recordResult' = "known"
                       /\ UNCHANGED <<macAddressCache, logFiles, wifiNetworkCount,
                                      recorded, recordedOk, sessionRows>>
                  ELSE \E we \in WriteEnvs(rd.st, left) :
                       LET wr == addMacToIndex(rd.st, o.mac, we)
                           left2 == left - EnvCost(we, WriteOk)
                       IN /\ macAddressCache' = addMacToCache(macAddressCache, o.mac)
                          /\ dirExists' = wr.st.dir
                          /\ indexFile' = wr.st.index
                          /\ indexFileInitialized' = wr.st.init
                          /\ recorded' = recorded \cup {o.mac}
                          /\ IF ~wr.ok
                             THEN /\ budget' = [budget EXCEPT !.faults = left2]
                                  /\ recordResult' = "failed"
                                  /\ UNCHANGED <<logFiles, wifiNetworkCount, recordedOk,
                                                 sessionRows>>
                             ELSE /\ recordedOk' = recordedOk \cup {o.mac}
                                  /\ recordResult' = "recorded"
                                  /\ \E printed \in PrintOutcomes(left2) :
                                     LET row == IF printed = RowLen THEN DataRow(o.mac)
                                                ELSE PartialRow(o.mac)
                                     IN
                                     /\ budget' = [budget EXCEPT
                                                     !.faults = left2 - Cost(printed = RowLen)]
                                     /\ IF printed # 0
                                        THEN /\ logFiles' =
                                                  [logFiles EXCEPT ![filename].data =
                                                      Append(@, row)]
                                             /\ wifiNetworkCount' = wifiNetworkCount + 1
                                             /\ sessionRows' = Append(sessionRows, row)
                                        ELSE UNCHANGED <<logFiles, wifiNetworkCount,
                                                         sessionRows>>
    /\ UNCHANGED <<pc, gpsConnected, returnToMenu, initial_position_set,
                   date_time_updated, filename, posVars, count, lastFsCheck,
                   network_amount, periVars, emptyRun, trail, fixLog>>

\* append_to_file(): the for loop is over, file.close(), back in loop()
append_close ==
    /\ pc = "append"
    /\ i >= network_amount
    /\ pc' = "wait"
    /\ i' = 0
    /\ network_amount' = 0
    /\ macAddress' = EmptyStr
    /\ ssid' = ""
    /\ recordResult' = "none"
    /\ UNCHANGED <<progVars, count, lastFsCheck, periVars, fsVars, recorded, recordedOk,
                   sessionRows, emptyRun, trail, fixLog, budget>>

\* loop(): "while (millis() - tmp < MAX_WAIT && !gps.location.isUpdated())"
loop_wait ==
    /\ pc = "wait"
    /\ IF cancelRequested(escPressed, returnToMenu)
       THEN /\ end
            /\ pc' = "done"
            /\ UNCHANGED trail
       ELSE /\ pc' = "loop"
            /\ trail' = << >>
            /\ UNCHANGED <<gpsConnected, returnToMenu, indexFileInitialized>>
    /\ network_amount' = 0
    /\ UNCHANGED <<initial_position_set, date_time_updated, filename, wifiNetworkCount,
                   macAddressCache, posVars, count, lastFsCheck, i, macAddress, ssid,
                   periVars, fsVars, recorded, recordedOk, sessionRows, emptyRun, fixLog,
                   recordResult, budget>>

\* Wardriving::Wardriving() on a new object: the storage is what the last
\* session left, everything in memory starts over (cur_lat and cur_lng have no
\* initialiser and are not read before set_position assigns them)
Wardriving ==
    /\ pc = "done"
    /\ budget.restarts > 0
    /\ budget' = [budget EXCEPT !.restarts = @ - 1]
    /\ pc' = "begin_gps"
    /\ gpsConnected' = FALSE
    /\ indexFileInitialized' = FALSE
    /\ initial_position_set' = FALSE
    /\ date_time_updated' = FALSE
    /\ filename' = EmptyStr
    /\ wifiNetworkCount' = 0
    /\ macAddressCache' = {}
    /\ count' = 0
    /\ gpsAvailable' = FALSE
    /\ escPressed' = FALSE
    /\ gpsYear' = NoDateYear
    /\ gpsNotFound' = FALSE
    /\ cur_lat' = 0
    /\ cur_lng' = 0
    /\ distance' = 0
    /\ sessionRows' = << >>
    /\ emptyRun' = 0
    /\ trail' = << >>
    /\ fixLog' = << >>
    /\ recordResult' = "none"
    /\ UNCHANGED <<returnToMenu, lastFsCheck, network_amount, i, macAddress, ssid,
                   clock, fsVars, recorded, recordedOk>>

\* the content of the storage is lost while the session waits (the card is
\* swapped or wiped): the log directory with all its files, or the index file
StorageLoss ==
    /\ pc = "wait"
    /\ budget.losses > 0
    /\ budget' = [budget EXCEPT !.losses = @ - 1]
    /\ \E whole \in BOOLEAN :
          /\ dirExists' = (dirExists /\ ~whole)
          /\ indexFile' = NoFile
          /\ logFiles' = IF whole THEN [n \in LogNames |-> NoFile] ELSE logFiles
    /\ UNCHANGED <<pc, progVars, localVars, periVars, histVars>>

\* the positioning receiver sends bytes (GPSserial.available() is read in
\* begin_gps and at the poll of loop(); only its value there matters)
GpsData ==
    /\ pc \in {"begin_gps", "poll"}
    /\ ~gpsAvailable
    /\ gpsAvailable' = TRUE
    /\ UNCHANGED <<pc, progVars, localVars, escPressed, gpsYear, clock, gpsNotFound,
                   fsVars, histVars, budget>>

\* the user holds the ESC key (checkEscPress() is read in begin_gps, at the
\* top of loop() and in its wait; only its value there matters)
EscPress ==
    /\ pc \in {"begin_gps", "loop", "wait"}
    /\ ~escPressed
    /\ escPressed' = TRUE
    /\ UNCHANGED <<pc, progVars, localVars, gpsAvailable, gpsYear, clock, gpsNotFound,
                   fsVars, histVars, budget>>

InitState(b) ==
    /\ pc = "begin_gps"
    /\ gpsConnected = FALSE
    /\ returnToMenu = FALSE
    /\ indexFileInitialized = FALSE
    /\ initial_position_set = FALSE
    /\ date_time_updated = FALSE
    /\ filename = EmptyStr
    /\ wifiNetworkCount = 0
    /\ macAddressCache = {}
    /\ cur_lat = 0
    /\ cur_lng = 0
    /\ distance = 0
    /\ count = 0
    /\ lastFsCheck = 0
    /\ network_amount = 0
    /\ i = 0
    /\ macAddress = EmptyStr
    /\ ssid = ""
    /\ gpsAvailable = FALSE
    /\ escPressed = FALSE
    /\ gpsYear = NoDateYear
    /\ clock = 0
    /\ gpsNotFound = FALSE
    /\ dirExists = FALSE
    /\ indexFile = NoFile
    /\ logFiles = [n \in LogNames |-> NoFile]
    /\ recorded = {}
    /\ recordedOk = {}
    /\ sessionRows = << >>
    /\ emptyRun = 0
    /\ trail = << >>
    /\ fixLog = << >>
    /\ recordResult = "none"
    /\ budget = b

\* few empty polls, several scans, storage faults
Init == InitState([scans |-> MaxScans, faults |-> MaxFaults, restarts |-> MaxRestarts,
                   empties |-> MaxEmpty, ticks |-> MaxTicks,
                   years |-> {NoDateYear, CURRENT_YEAR}, fixes |-> Fixes,
                   losses |-> 0])

\* enough empty polls to lose the receiver, one scan, no storage fault
LoopInit == InitState([scans |-> LoopScans, faults |-> 0, restarts |-> MaxRestarts,
                       empties |-> CountLimit + 1 + LoopEmptySlack, ticks |-> LoopTicks,
                       years |-> Years, fixes |-> HomeFix, losses |-> MaxLosses])

\* one scan, one storage fault, one empty poll
FairInit == InitState([scans |-> LoopScans, faults |-> MaxFaults, restarts |-> MaxRestarts,
                       empties |-> MaxEmpty + 1, ticks |-> MaxTicks,
                       years |-> {NoDateYear, CURRENT_YEAR}, fixes |-> HomeFix,
                       losses |-> 0])

Program ==
    \/ begin_gps
    \/ setup
    \/ loop_top
    \/ loop_poll
    \/ append_open
    \/ append_row
    \/ append_close
    \/ loop_wait

Next ==
    \/ Program
    \/ Wardriving
    \/ GpsData
    \/ EscPress

\* the loop profile, with the storage content at risk
LoopNext ==
    \/ Next
    \/ StorageLoss

Spec == Init /\ [][Next]_vars

LoopSpec == LoopInit /\ [][LoopNext]_vars

\* the session's own steps are taken as long as one is possible; the
\* receiver, the user and a new session are under no obligation
FairSpec == FairInit /\ [][Next]_vars /\ WF_vars(Program)

(***************************************************************************)
(* The deduplication engine as its callers see it.                         *)
(***************************************************************************)
\* "isMacInCache(mac) || isMacInIndex(mac)" with the storage accessible
contains(mac) ==
    isMacInCache(macAddressCache, mac) \/ isMacInIndex(St, mac, ReadOk).found

\* the 6-byte blocks the read loop of isMacInIndex delivers
IndexBlocks ==
    { Block(indexFile.data, n) : n \in 0..((Len(indexFile.data) \div BLOCK_SIZE) - 1) }

IsPrefix(s, t) == Len(s) <= Len(t) /\ SubSeq(t, 1, Len(s)) = s

(***************************************************************************)
(* Claims.                                                                 *)
(***************************************************************************)

\* C1: once record(a) has returned success, contains(a) is true in every
\* later state: after further record calls, after cache evictions and after
\* a restart that empties the cache and keeps the index file.
C1_DedupDurable == \A a \in recordedOk : contains(a)

\* C2: contains(a) is true only of an address that was handed to record at
\* some earlier point, for the addresses a scan reports and for every address
\* the index holds a block of.
C2_NoFalsePositive ==
    \A a \in ValidMacs \cup { bytesToMacString(b) : b \in IndexBlocks } :
        contains(a) => a \in recorded

\* C3: after every addMacToCache the cache holds at most CACHE_SIZE entries,
\* and the call that takes it over CACHE_CLEAN_THRESHOLD leaves exactly
\* CACHE_SIZE / 2 entries.
C3_CacheBound ==
    [][macAddressCache' # macAddressCache /\ pc' # "begin_gps" =>
         /\ Cardinality(macAddressCache') <= CACHE_SIZE
         /\ (Cardinality(macAddressCache \cup {macAddress'}) > CACHE_CLEAN_THRESHOLD
                => Cardinality(macAddressCache') = CACHE_SIZE \div 2)]_vars

\* C3 witness: three distinct addresses were recorded in the first session
\* and the eviction has left CACHE_SIZE / 2 of them in the cache.
C3_Witness ==
    /\ pc = "append"
    /\ budget.restarts = MaxRestarts
    /\ Cardinality(recorded) > CACHE_CLEAN_THRESHOLD
    /\ Cardinality(macAddressCache) = CACHE_SIZE \div 2

\* C4: within one session no address gets two data rows.
C4_LoggedOnce ==
    \A m, n \in 1..Len(sessionRows) : m # n => sessionRows[m][2] # sessionRows[n][2]

\* C5: every step leaves the old content of the index file as a prefix of the
\* new content, and the length of the file is a multiple of 6.
C5_IndexAppendOnly ==
    [][/\ IsPrefix(indexFile.data, indexFile'.data)
       /\ Len(indexFile'.data) % BLOCK_SIZE = 0]_vars

\* C6: no 6-byte record occurs twice in the index file.
C6_IndexDistinct ==
    \A m, n \in 0..((Len(indexFile.data) \div BLOCK_SIZE) - 1) :
        m # n => Block(indexFile.data, m) # Block(indexFile.data, n)

\* an observation the claim calls rejected
Rejected(mac, name) == ~isValidMacString(mac) \/ name = ""

\* C7: a turn of the for loop on an observation whose address fails validation
\* or whose network name is empty writes no data row, leaves the counter, the
\* cache and the index as they were, and goes on to the next observation.
C7_RejectedLeavesNoTrace ==
    [][pc = "append" /\ i' = i + 1 /\ Rejected(macAddress', ssid') =>
         /\ UNCHANGED <<logFiles, wifiNetworkCount, macAddressCache, indexFile>>
         /\ pc' = "append"]_vars

\* C7 witness: the first observation of a scan of two was rejected and the
\* second is still to be processed.
C7_Witness ==
    /\ pc = "append"
    /\ i = 1
    /\ i < network_amount
    /\ Rejected(macAddress, ssid)

\* C8: in every output file the banner and the column line are lines 1 and 2
\* and occur nowhere else.
C8_HeaderOnce ==
    \A n \in LogNames :
        logFiles[n].exists =>
            /\ Len(logFiles[n].data) >= 2
            /\ logFiles[n].data[1] = BannerLine
            /\ logFiles[n].data[2] = ColumnLine
            /\ \A k \in 3..Len(logFiles[n].data) :
                  logFiles[n].data[k] \notin {BannerLine, ColumnLine}

\* positions of loop() and of the functions it calls
RunningPcs == {"loop", "poll", "append_open", "append", "wait"}

\* C9: if the receiver never produces data during begin_gps and the user
\* never cancels, the session reaches Terminated, without entering Running.
C9_StartupTimeout ==
    [](~gpsAvailable /\ ~escPressed) => (<>(pc = "done") /\ [](pc \notin RunningPcs))

\* C10 as claimed: once data has been unavailable for 6 consecutive iterations
\* the session is Terminated with the fatal error.
C10_DisconnectAtSixth ==
    emptyRun >= CountLimit + 1 => (pc = "done" /\ gpsNotFound)

\* C10 as amended: in Running, count is the number of consecutive iterations
\* without data (0 after an iteration with data); the fatal error ends the
\* session in the iteration that finds no data with count already above 5,
\* the 7th consecutive one, and in no other.
C10_DisconnectAtSeventh ==
    /\ pc \in RunningPcs => count = emptyRun
    /\ gpsNotFound => (pc = "done" /\ emptyRun = CountLimit + 2)
    /\ emptyRun = CountLimit + 2 => (pc = "done" /\ gpsNotFound)
    /\ emptyRun <= CountLimit + 2

\* C10 witness: the session was ended by the fatal error on the 7th
\* consecutive iteration without data.
C10_Witness == gpsNotFound /\ pc = "done" /\ emptyRun = CountLimit + 2

\* C11: a cancellation seen at a cancellation point (the wait of begin_gps, the
\* top of an iteration of loop(), the wait between iterations) ends the session
\* in that step, with no position update, scan, record or log write; and once
\* the key is down the session reaches Terminated.
C11_CancellationWins ==
    /\ [][ /\ escPressed
           /\ \/ pc = "begin_gps" /\ ~gpsAvailable
              \/ pc \in {"loop", "wait"}
           /\ pc' # pc
           => /\ pc' = "done"
              /\ returnToMenu'
              /\ UNCHANGED <<posVars, initial_position_set, fixLog, macAddressCache,
                             indexFile, logFiles, recorded, sessionRows,
                             wifiNetworkCount>>
              /\ budget'.scans = budget.scans ]_vars
    /\ (escPressed ~> pc = "done")

\* C11 witness: the session was ended by the key after rows had been written.
C11_Witness == pc = "done" /\ escPressed /\ ~gpsNotFound /\ Len(sessionRows) > 0

\* what the poll of an iteration leaves in trail when it scans
ScanTrail == <<"updated", "set_position", "scan">>

\* C12: a radio scan is taken only at the poll of loop(), with data available
\* and the location updated, after set_position in the same iteration and at
\* most once per iteration; records, index appends and log writes happen only
\* in append_to_file of an iteration that scanned.
C12_ScanGated ==
    [][ /\ budget'.scans # budget.scans
           => /\ pc = "poll"
              /\ gpsAvailable
              /\ trail = << >>
              /\ trail' = ScanTrail
              /\ fixLog' # fixLog
        /\ (pc' # "begin_gps" /\ \/ recorded' # recorded
                                 \/ sessionRows' # sessionRows
                                 \/ indexFile'.data # indexFile.data
                                 \/ macAddressCache' # macAddressCache)
           => pc = "append" /\ trail = ScanTrail
        /\ logFiles' # logFiles
           => pc \in {"append_open", "append"} /\ trail = ScanTrail ]_vars

\* C12 witness: a data row was written in an iteration that scanned.
C12_Witness == pc = "append" /\ trail = ScanTrail /\ Len(sessionRows) > 0 /\ i > 0

\* C13: in Terminated all session flags are reset and the return-to-caller
\* signal is set.
C13_TerminationResets ==
    pc = "done" => /\ ~initial_position_set
                   /\ ~date_time_updated
                   /\ ~indexFileInitialized
                   /\ returnToMenu

\* C14: a periodic health check (checkFileSystem, then initializeIndex) that
\* finds the storage accessible leaves the log directory and the index file
\* in existence.
C14_SelfHealing ==
    [][pc = "loop" /\ lastFsCheck' # lastFsCheck
         => dirExists' /\ indexFile'.exists]_vars

\* C15: an append_to_file that cannot ensure the directory, reach the storage
\* or open the output file writes nothing and sets returnToMenu; the wait that
\* follows ends the session, with no scan or write before Terminated.
C15_StorageAbort ==
    /\ [][ /\ (pc = "append_open" /\ pc' # "append")
              => /\ pc' = "wait"
                 /\ returnToMenu'
                 /\ UNCHANGED <<logFiles, macAddressCache, indexFile, wifiNetworkCount,
                                sessionRows, recorded>>
           /\ (pc = "wait" /\ returnToMenu /\ pc' # pc)
              => /\ pc' = "done"
                 /\ budget'.scans = budget.scans
                 /\ UNCHANGED <<logFiles, macAddressCache, indexFile, wifiNetworkCount,
                                sessionRows, recorded>> ]_vars
    /\ ((pc = "wait" /\ returnToMenu) ~> pc = "done")

\* C15 witness: append_to_file has given up and returned to the loop.
C15_Witness == pc = "wait" /\ returnToMenu /\ trail = ScanTrail /\ ~escPressed

\* sum of the distances between consecutive fixes
RECURSIVE PathLength(_)
PathLength(path) ==
    IF Len(path) < 2 THEN 0
    ELSE distanceBetween(path[1][1], path[1][2], path[2][1], path[2][2])
         + PathLength(Tail(path))

C17_CounterIsRows ==
    wifiNetworkCount =
        Cardinality({ k \in 1..Len(sessionRows) : sessionRows[k][1] = "row" })

\* C18: an assigned filename is derived from a year y with
\* CURRENT_YEAR <= y < CURRENT_YEAR + 5.
C18_PlausibleFilename ==
    filename # EmptyStr
        => filename \in { create_filename(y) : y \in CURRENT_YEAR..(CURRENT_YEAR + 4) }

\* C19 as claimed: after a record whose index append failed the address is a
\* member of the cache.
C19_NoRollback ==
    [][recordResult' = "failed" /\ i' = i + 1 => macAddress' \in macAddressCache']_vars

\* C19 as amended: after a record whose index append failed the cache is what
\* the insertion and its clean-up left: the address is a member when the
\* insertion did not take the size above CACHE_CLEAN_THRESHOLD, and otherwise
\* unless it was among the lowest-ordered entries the clean-up removed.
C19_NoRollbackUnlessEvicted ==
    [][recordResult' = "failed" /\ i' = i + 1
         => /\ macAddressCache' \subseteq macAddressCache \cup {macAddress'}
            /\ Cardinality(macAddressCache \cup {macAddress'}) <= CACHE_CLEAN_THRESHOLD
                  => macAddressCache' = macAddressCache \cup {macAddress'}
            /\ macAddress' \notin macAddressCache'
                  => /\ Cardinality(macAddressCache') = CACHE_SIZE \div 2
                     /\ \A x \in macAddressCache' : StrLess(macAddress', x) ]_vars

\* C19 witness: a record has failed on its index append and the address is in
\* the cache.
C19_Witness ==
    pc = "append" /\ recordResult = "failed" /\ macAddress \in macAddressCache

\* C20: every address with a record in the index has a data row in a log file.
C20_IndexBehindLog ==
    \A b \in IndexBlocks :
        \E n \in LogNames :
            \E k \in 1..Len(logFiles[n].data) :
                logFiles[n].data[k] = DataRow(bytesToMacString(b))

====
